---- MODULE Spec2Model ----
(***************************************************************************)
(* A model of hizli: the binding layer of hizli-core (FieldType,           *)
(* FieldBinding, VariantBinding, the shape gates of data.rs) and the Parse *)
(* derive of hizli-macros.  A derivation input is drawn in Init, one       *)
(* operation of the library is applied to it, and when the Parse derive    *)
(* succeeded the emitted parser (a token stream) is executed step by step  *)
(* against an input token stream.                                          *)
(***************************************************************************)
EXTENDS Integers, Sequences, FiniteSets, TLC

\* ---------------------------------------------------------------- bounds
MaxFields == 2
MaxVariants == 2
MaxStream == 2
MaxAttrs == 3

\* ------------------------------------------------------- the input domain
\* Field types the derivation input may mention, and the kinds of token the
\* parsed stream may hold.  Lit accepts every literal, LitInt only integers,
\* so two variants starting with Lit and LitInt have overlapping lookaheads.
Types == {"LitInt", "Lit"}
TokenKinds == {"int", "str"}

\* Declared names, by declaration position (distinct, not in sorted order).
FieldNames == <<"b", "a", "d", "c">>
VariantNames == <<"Beta", "Alpha", "Delta", "Gamma">>
TypeIdent == "Expr"
DeriveNames == {"Parse", "Spanable", "MyClone"}

\* syn::Field: ident is "" for a positional field (Option::None).
NamedField(i, t) == [ident |-> FieldNames[i], ty |-> t]
UnnamedField(t) == [ident |-> "", ty |-> t]

\* syn::Fields: Unit, Named(brace-delimited list), Unnamed(parenthesised list).
UnitFields == [kind |-> "Unit", list |-> <<>>]
NamedFields(ts) ==
    [kind |-> "Named", list |-> [i \in 1..Len(ts) |-> NamedField(i, ts[i])]]
UnnamedFields(ts) ==
    [kind |-> "Unnamed", list |-> [i \in 1..Len(ts) |-> UnnamedField(ts[i])]]
TypeLists == UNION { [1..n -> Types] : n \in 0..MaxFields }
FieldsSet ==
    {UnitFields} \cup {NamedFields(ts) : ts \in TypeLists}
                 \cup {UnnamedFields(ts) : ts \in TypeLists}

\* syn::Variant.  The fields of a variant are drawn with either type for the
\* first field, the one the lookahead is about, and LitInt for the later ones.
Variant(i, fs) == [ident |-> VariantNames[i], fields |-> fs]
VariantTypeLists == {ts \in TypeLists : \A i \in 2..Len(ts) : ts[i] = "LitInt"}
VariantFieldsSet ==
    {UnitFields} \cup {NamedFields(ts) : ts \in VariantTypeLists}
                 \cup {UnnamedFields(ts) : ts \in VariantTypeLists}
VariantLists ==
    UNION { { [i \in 1..n |-> Variant(i, fl[i])] : fl \in [1..n -> VariantFieldsSet] } :
            n \in 0..MaxVariants }

\* syn::Data, one record shape for the three cases.
DataStruct(fs) == [kind |-> "Struct", fields |-> fs, variants |-> <<>>]
DataEnum(vs) == [kind |-> "Enum", fields |-> UnitFields, variants |-> vs]
DataUnion == [kind |-> "Union", fields |-> NamedFields(<<"Lit">>), variants |-> <<>>]
DataSet ==
    {DataStruct(fs) : fs \in FieldsSet} \cup {DataEnum(vs) : vs \in VariantLists}
        \cup {DataUnion}

\* syn::Generics: the type parameters and the tokens of the where-clause.
NoGenerics == [params |-> <<>>, where_clause |-> <<>>]
OneGeneric ==
    [params |-> <<"T">>,
     where_clause |-> <<[k |-> "Ident", s |-> "where", g |-> <<>>],
                        [k |-> "Ident", s |-> "T", g |-> <<>>],
                        [k |-> "Punct", s |-> ":", g |-> <<>>],
                        [k |-> "Ident", s |-> "Clone", g |-> <<>>]>>]
\* Generic declarations are drawn for the structs and the enums of at most
\* one variant.
GenericsFor(d) ==
    IF Len(d.variants) <= 1 /\ d.kind # "Union" THEN {NoGenerics, OneGeneric}
    ELSE {NoGenerics}

\* The parsed input: a sequence of token kinds.
Streams == UNION { [1..n -> TokenKinds] : n \in 0..MaxStream }

\* ------------------------------------------------ tokens, spans, results
\* proc_macro2::TokenTree, one record shape: s is the text of an identifier,
\* punctuation or literal, or the delimiter of a group whose stream is g.
Id(s) == [k |-> "Ident", s |-> s, g |-> <<>>]
P(s) == [k |-> "Punct", s |-> s, g |-> <<>>]
Lit(s) == [k |-> "Literal", s |-> s, g |-> <<>>]
Grp(d, ts) == [k |-> "Group", s |-> d, g |-> ts]

\* syn::Error and Result<T>
Error(span, msg) == [span |-> span, msg |-> msg]
NoError == Error("", "")
Ok(v) == [ok |-> TRUE, val |-> v, err |-> NoError]
Err(e) == [ok |-> FALSE, val |-> <<>>, err |-> e]

\* Spans of the derivation input.
StructToken == "struct_token"
EnumToken == "enum_token"
UnionToken == "union_token"
VariantIdentSpan(i) == "variants[" \o ToString(i) \o "].ident"

\* ------------------------------------------------- hizli-core/src/data.rs
StructEnumOnly_try_new(data, derive_name) ==
    CASE data.kind = "Struct" -> Ok([tag |-> "Struct", payload |-> data])
      [] data.kind = "Enum" -> Ok([tag |-> "Enum", payload |-> data])
      [] data.kind = "Union" ->
            Err(Error(UnionToken, "Cannot #[derive(" \o derive_name \o ")] On Union"))

StructOnly_try_new(data, derive_name) ==
    CASE data.kind = "Struct" -> Ok([tag |-> "Struct", payload |-> data])
      [] data.kind = "Enum" ->
            Err(Error(EnumToken, "Cannot #[derive(" \o derive_name \o ")] On Enum"))
      [] data.kind = "Union" ->
            Err(Error(UnionToken, "Cannot #[derive(" \o derive_name \o ")] On Union"))

\* EnumOnly::try_new naming the requested shape instead of the rejected one.
EnumOnly_try_new_requested(data, derive_name) ==
    CASE data.kind = "Enum" -> Ok([tag |-> "Enum", payload |-> data])
      [] data.kind = "Struct" ->
            Err(Error(StructToken, "Cannot #[derive(" \o derive_name \o ")] On Enum"))
      [] data.kind = "Union" ->
            Err(Error(UnionToken, "Cannot #[derive(" \o derive_name \o ")] On Union"))

EnumOnly_try_new(data, derive_name) ==
    CASE data.kind = "Enum" -> Ok([tag |-> "Enum", payload |-> data])
      [] data.kind = "Struct" ->
            Err(Error(StructToken, "Cannot #[derive(" \o derive_name \o ")] On Struct"))
      [] data.kind = "Union" ->
            Err(Error(UnionToken, "Cannot #[derive(" \o derive_name \o ")] On Union"))

\* ------------------------------- hizli-core/src/bindings/field_type.rs
\* A classification by the number of fields: Unit whenever there is none.
FieldType_new_by_count(fields) ==
    CASE fields.list = <<>> -> "Unit"
      [] fields.kind = "Named" -> "Named"
      [] fields.kind = "Unnamed" -> "Unnamed"

FieldType_new(fields) ==
    CASE fields.kind = "Unit" -> "Unit"
      [] fields.kind = "Named" -> "Named"
      [] fields.kind = "Unnamed" -> "Unnamed"

\* wrap with the delimiters of Named and Unnamed exchanged.
FieldType_wrap_swapped(self, inner) ==
    CASE self = "Unit" -> inner
      [] self = "Named" -> <<Grp("Parenthesis", inner)>>
      [] self = "Unnamed" -> <<Grp("Brace", inner)>>

FieldType_wrap(self, inner) ==
    CASE self = "Unit" -> inner
      [] self = "Named" -> <<Grp("Brace", inner)>>
      [] self = "Unnamed" -> <<Grp("Parenthesis", inner)>>

\* quote's `#(#items),*`: the items' tokens, a comma between consecutive items.
RECURSIVE JoinComma(_)
JoinComma(items) ==
    IF items = <<>> THEN <<>>
    ELSE IF Len(items) = 1 THEN items[1]
    ELSE items[1] \o <<P(",")>> \o JoinComma(Tail(items))

\* ----------------------------- hizli-core/src/bindings/field_binding.rs
\* Index.index is idx as a u32 (idx.try_into().unwrap_or_default()); a position
\* below 2^32 converts unchanged, and the binding name is built from idx itself.
FieldBinding_new(idx, field) ==
    IF field.ident # ""
    THEN [ident |-> field.ident, member |-> [named |-> TRUE, name |-> field.ident, index |-> 0]]
    ELSE [ident |-> "binding_" \o ToString(idx),
          member |-> [named |-> FALSE, name |-> "", index |-> idx]]

\* from_fields numbering the positions from one.
FieldBinding_from_fields_one_based(fields) ==
    [i \in 1..Len(fields.list) |-> FieldBinding_new(i, fields.list[i])]

\* fields.iter().enumerate().map(Self::new): zero-based positions.
FieldBinding_from_fields(fields) ==
    [i \in 1..Len(fields.list) |-> FieldBinding_new(i - 1, fields.list[i])]

\* --------------------------- struct_binding.rs, variant_binding.rs
StructBinding_new(fields) ==
    [field_bindings |-> FieldBinding_from_fields(fields),
     field_type |-> FieldType_new(fields)]

VariantBinding_new(variant) ==
    [ident |-> variant.ident, struct_binding |-> StructBinding_new(variant.fields)]

\* ---------------------------- hizli-core/src/bindings/variant_pattern.rs
\* variant_pattern without the layout's delimiters.
variant_pattern_unwrapped(self) ==
    LET bindings == [i \in 1..Len(self.struct_binding.field_bindings) |->
                        <<Id(self.struct_binding.field_bindings[i].ident)>>]
    IN  <<Id(self.ident)>> \o JoinComma(bindings)

variant_pattern(self) ==
    LET bindings == [i \in 1..Len(self.struct_binding.field_bindings) |->
                        <<Id(self.struct_binding.field_bindings[i].ident)>>]
        pattern == FieldType_wrap(self.struct_binding.field_type, JoinComma(bindings))
    IN  <<Id(self.ident)>> \o pattern

\* ------------------------------------ hizli-macros/src/parse/product.rs
\* The tokens of `input.parse()?`
ParseCall == <<Id("input"), P("."), Id("parse"), Grp("Parenthesis", <<>>), P("?")>>

\* The tokens of `::core::result::Result::Ok` and `::core::result::Result::Err`
ResultPath(v) ==
    <<P("::"), Id("core"), P("::"), Id("result"), P("::"), Id("Result"), P("::"), Id(v)>>

\* init dropping the field's name.
init_positional(field) == ParseCall

init(field) ==
    IF field.ident # ""
    THEN <<Id(field.ident), P(":")>> \o ParseCall
    ELSE ParseCall

product(s) ==
    LET field_type == FieldType_new(s.fields)
        inits == [i \in 1..Len(s.fields.list) |-> init(s.fields.list[i])]
        init_ == FieldType_wrap(field_type, JoinComma(inits))
    IN  ResultPath("Ok") \o <<Grp("Parenthesis", <<Id("Self")>> \o init_)>>

\* -------------------------- hizli-macros/src/parse/sum_expected_one_of.rs
\* Display of a type: its tokens, separated by spaces.
RECURSIVE TokensToString(_)
TokensToString(ts) ==
    IF ts = <<>> THEN ""
    ELSE IF Len(ts) = 1 THEN ts[1].s
    ELSE ts[1].s \o " " \o TokensToString(Tail(ts))

\* ToTokens of a field type (the modelled types are single identifiers).
TypeTokens(ty) == <<Id(ty)>>

\* The loop body, over the variants still to visit and the buffer so far.
\* The loop listing the type of each variant's last field instead of its first.
RECURSIVE ExpectedLoopLast(_, _, _)
ExpectedLoopLast(variants, id, buf) ==
    IF variants = <<>> THEN buf
    ELSE IF Head(variants).fields.list = <<>>
    THEN ExpectedLoopLast(Tail(variants), id, buf)
    ELSE LET field == Head(variants).fields.list[Len(Head(variants).fields.list)]
             buf1 == IF buf = ""
                     THEN "Error Parsing: " \o id \o ", Expected One Of: "
                     ELSE buf \o ", "
         IN  ExpectedLoopLast(Tail(variants), id,
                              buf1 \o TokensToString(TypeTokens(field.ty)))

RECURSIVE ExpectedLoop(_, _, _)
ExpectedLoop(variants, id, buf) ==
    IF variants = <<>> THEN buf
    ELSE IF Head(variants).fields.list = <<>>
    THEN ExpectedLoop(Tail(variants), id, buf)
    ELSE LET field == Head(variants).fields.list[1]
             buf1 == IF buf = ""
                     THEN "Error Parsing: " \o id \o ", Expected One Of: "
                     ELSE buf \o ", "
         IN  ExpectedLoop(Tail(variants), id,
                          buf1 \o TokensToString(TypeTokens(field.ty)))

sum_expected_one_of(e, id) == ExpectedLoop(e.variants, id, "")

\* ---------------------------------------- hizli-macros/src/parse/sum.rs
\* branch reporting a fieldless variant at the enum keyword.
branch_at_keyword(variant, i) ==
    IF variant.fields.list = <<>>
    THEN Err(Error(EnumToken, "#[derive(Parse)] Requires At Least One Field"))
    ELSE LET ty == variant.fields.list[1].ty
             inits == [j \in 1..Len(variant.fields.list) |-> init(variant.fields.list[j])]
             init_ == FieldType_wrap(FieldType_new(variant.fields), JoinComma(inits))
         IN  Ok(<<Id("if"), Id("input"), P("."), Id("peek"),
                  Grp("Parenthesis", TypeTokens(ty)),
                  Grp("Brace",
                      <<Id("return")>> \o ResultPath("Ok")
                        \o <<Grp("Parenthesis",
                                 <<Id("Self"), P("::"), Id(variant.ident)>> \o init_),
                             P(";")>>)>>)

branch(variant, i) ==
    IF variant.fields.list = <<>>
    THEN Err(Error(VariantIdentSpan(i), "#[derive(Parse)] Requires At Least One Field"))
    ELSE LET first == variant.fields.list[1]
             ty == first.ty
             inits == [j \in 1..Len(variant.fields.list) |-> init(variant.fields.list[j])]
             init_ == FieldType_wrap(FieldType_new(variant.fields), JoinComma(inits))
         IN  Ok(<<Id("if"), Id("input"), P("."), Id("peek"),
                  Grp("Parenthesis", TypeTokens(ty)),
                  Grp("Brace",
                      <<Id("return")>> \o ResultPath("Ok")
                        \o <<Grp("Parenthesis",
                                 <<Id("Self"), P("::"), Id(variant.ident)>> \o init_),
                             P(";")>>)>>)

\* The branches collected in reverse declaration order.
RECURSIVE CollectBranchesRev(_, _, _)
CollectBranchesRev(variants, i, acc) ==
    IF i > Len(variants) THEN Ok(acc)
    ELSE LET b == branch(variants[i], i)
         IN  IF b.ok THEN CollectBranchesRev(variants, i + 1, <<b.val>> \o acc)
             ELSE b

\* e.variants.iter().map(branch).collect::<Result<Vec<_>>>(): the branches in
\* declaration order, or the first error in declaration order.
RECURSIVE CollectBranches(_, _, _)
CollectBranches(variants, i, acc) ==
    IF i > Len(variants) THEN Ok(acc)
    ELSE LET b == branch(variants[i], i)
         IN  IF b.ok THEN CollectBranches(variants, i + 1, Append(acc, b.val))
             ELSE b

RECURSIVE Concat(_)
Concat(streams) ==
    IF streams = <<>> THEN <<>> ELSE Head(streams) \o Concat(Tail(streams))

\* sum without the check for an empty enum.
sum_unchecked(e, id) ==
    LET msg == sum_expected_one_of(e, id)
        branches == CollectBranches(e.variants, 1, <<>>)
    IN  IF ~branches.ok THEN branches
        ELSE Ok(Concat(branches.val) \o ResultPath("Err")
                \o <<Grp("Parenthesis",
                         <<P("::"), Id("syn"), P("::"), Id("Error"), P("::"), Id("new"),
                           Grp("Parenthesis",
                               <<Id("input"), P("."), Id("span"),
                                 Grp("Parenthesis", <<>>), P(","), Lit(msg)>>)>>)>>)

sum(e, id) ==
    IF e.variants = <<>>
    THEN Err(Error(EnumToken,
            "Cannot #[derive(Parse)] On An Empty Enum. It's Not Constructable At Runtime"))
    ELSE LET msg == sum_expected_one_of(e, id)
             branches == CollectBranches(e.variants, 1, <<>>)
         IN  IF ~branches.ok THEN branches
             ELSE Ok(Concat(branches.val) \o ResultPath("Err")
                     \o <<Grp("Parenthesis",
                              <<P("::"), Id("syn"), P("::"), Id("Error"), P("::"), Id("new"),
                                Grp("Parenthesis",
                                    <<Id("input"), P("."), Id("span"),
                                      Grp("Parenthesis", <<>>), P(","), Lit(msg)>>)>>)>>)

\* ------------------------------------ hizli-macros/src/parse/handler.rs
ParseTraitPath ==
    <<P("::"), Id("syn"), P("::"), Id("parse"), P("::"), Id("Parse")>>

\* Generics::split_for_impl: `<T, ..>` for the impl and for the type, and the
\* where-clause.
AngleList(params) ==
    IF params = <<>> THEN <<>>
    ELSE <<P("<")>> \o JoinComma([i \in 1..Len(params) |-> <<Id(params[i])>>]) \o <<P(">")>>
split_for_impl(generics) ==
    [impl_gen |-> AngleList(generics.params),
     type_gen |-> AngleList(generics.params),
     where_cl |-> generics.where_clause]

parse_handler(input) ==
    LET ident == input.ident
        gens == split_for_impl(input.generics)
        gate == StructEnumOnly_try_new(input.data, "Parse")
        block == IF ~gate.ok THEN gate
                 ELSE IF gate.val.tag = "Struct" THEN Ok(product(gate.val.payload))
                 ELSE sum(gate.val.payload, ident)
    IN  IF ~block.ok THEN block
        ELSE Ok(<<P("#"), Grp("Bracket", <<Id("automatically_derived")>>), Id("impl")>>
                \o gens.impl_gen \o ParseTraitPath \o <<Id("for"), Id(ident)>>
                \o gens.type_gen \o gens.where_cl
                \o <<Grp("Brace",
                         <<Id("fn"), Id("parse"),
                           Grp("Parenthesis",
                               <<Id("input"), P(":"), P("::"), Id("syn"), P("::"),
                                 Id("parse"), P("::"), Id("ParseStream")>>),
                           P("->"), P("::"), Id("syn"), P("::"), Id("Result"),
                           P("<"), Id("Self"), P(">"),
                           Grp("Brace", block.val)>>)>>)

\* The block of the emitted `fn parse`: the last group of the impl's body.
BlockOf(impl) == impl[Len(impl)].g[Len(impl[Len(impl)].g)].g

\* ---------------------------------- hizli-macros/src/spanable/product.rs
\* The tokens of `::proc_macro2::Span::call_site()`
CallSite ==
    <<P("::"), Id("proc_macro2"), P("::"), Id("Span"), P("::"), Id("call_site"),
      Grp("Parenthesis", <<>>)>>

\* The tokens of `::hizli::Spanable::spanable`
SpanablePath ==
    <<P("::"), Id("hizli"), P("::"), Id("Spanable"), P("::"), Id("spanable")>>

\* Fields::members(): the field's name, or its zero-based position.
Member(fields, i) ==
    IF fields.list[i].ident # ""
    THEN [named |-> TRUE, name |-> fields.list[i].ident, index |-> 0]
    ELSE [named |-> FALSE, name |-> "", index |-> i - 1]
\* ToTokens of a Member: an identifier, or an unsuffixed integer literal.
MemberTokens(m) == IF m.named THEN <<Id(m.name)>> ELSE <<Lit(ToString(m.index))>>

\* product delegating to the last field instead of the first.
spanable_product_last(s) ==
    IF s.fields.list # <<>>
    THEN SpanablePath
           \o <<Grp("Parenthesis",
                    <<Id("self"), P(".")>>
                      \o MemberTokens(Member(s.fields, Len(s.fields.list))))>>
    ELSE CallSite

spanable_product(s) ==
    IF s.fields.list # <<>>
    THEN SpanablePath
           \o <<Grp("Parenthesis",
                    <<Id("self"), P(".")>> \o MemberTokens(Member(s.fields, 1)))>>
    ELSE CallSite

\* -------------------------------------- hizli-macros/src/spanable/sum.rs
\* arm taking the span of the last bound field instead of the first.
arm_last(variant) ==
    LET binding == VariantBinding_new(variant)
        pat == variant_pattern(binding)
        bindings == binding.struct_binding.field_bindings
        expr_ == IF bindings # <<>>
                 THEN <<Id(bindings[Len(bindings)].ident), P("."), Id("span"),
                        Grp("Parenthesis", <<>>)>>
                 ELSE CallSite
    IN  <<Id("Self"), P("::")>> \o pat \o <<P("=>")>> \o expr_

arm(variant) ==
    LET binding == VariantBinding_new(variant)
        pat == variant_pattern(binding)
        bindings == binding.struct_binding.field_bindings
        expr_ == IF bindings # <<>>
                 THEN <<Id(bindings[1].ident), P("."), Id("span"), Grp("Parenthesis", <<>>)>>
                 ELSE CallSite
    IN  <<Id("Self"), P("::")>> \o pat \o <<P("=>")>> \o expr_

spanable_sum(e) ==
    IF e.variants = <<>>
    THEN <<Id("match"), P("*"), Id("self"), Grp("Brace", <<>>)>>
    ELSE LET arms == [i \in 1..Len(e.variants) |-> arm(e.variants[i])]
         IN  <<Id("match"), Id("self"), Grp("Brace", JoinComma(arms))>>

\* ---------------------------------- hizli-macros/src/spanable/handler.rs
spanable_handler(input) ==
    LET ident == input.ident
        gens == split_for_impl(input.generics)
        gate == StructEnumOnly_try_new(input.data, "Spanable")
    IN  IF ~gate.ok THEN gate
        ELSE LET block == IF gate.val.tag = "Enum" THEN spanable_sum(gate.val.payload)
                          ELSE spanable_product(gate.val.payload)
             IN  Ok(<<P("#"), Grp("Bracket", <<Id("automatically_derived")>>), Id("impl")>>
                    \o gens.impl_gen \o <<Id(ident)>> \o gens.type_gen \o gens.where_cl
                    \o <<Grp("Brace",
                             <<Id("fn"), Id("spanable"),
                               Grp("Parenthesis", <<P("&"), Id("self")>>),
                               P("->"), P("::"), Id("proc_macro2"), P("::"), Id("Span"),
                               Grp("Brace", block)>>)>>)

\* ------------------------------------------------ hizli-core/src/rules.rs
\* syn::Error::into_compile_error: one `::core::compile_error! { "msg" }` per
\* message of the error; an error made by Error::new carries one message.
into_compile_error(err) ==
    <<P("::"), Id("core"), P("::"), Id("compile_error"), P("!"),
      Grp("Brace", <<Lit(err.msg)>>)>>

\* out! dropping the handler's error: nothing is emitted on failure.
out_macro_silent(result) ==
    IF ~result.ok THEN <<>> ELSE result.val

\* out!: the handler's fragment, or the compile-error rendering of its error.
out_macro(result) ==
    IF ~result.ok THEN into_compile_error(result.err) ELSE result.val

\* --------------------------------------- reading the emitted accessor
\* `::hizli::Spanable::spanable(self.MEMBER)`
IsSpanableCall(code) ==
    /\ Len(code) = 7
    /\ SubSeq(code, 1, 6) = SpanablePath
    /\ code[7].k = "Group" /\ code[7].s = "Parenthesis"
    /\ Len(code[7].g) = 3
    /\ code[7].g[1] = Id("self") /\ code[7].g[2] = P(".")

\* The position of a field of the value: the field's own span.
FieldSpan(member) == "self." \o member
CallSiteSpan == "call_site"

\* `match self { ARM, ARM, .. }`
IsMatch(code) ==
    /\ Len(code) = 3
    /\ code[1] = Id("match") /\ code[2] = Id("self")
    /\ code[3].k = "Group" /\ code[3].s = "Brace"

\* The pieces of a stream between its top-level commas.
RECURSIVE SplitComma(_, _)
SplitComma(ts, cur) ==
    IF ts = <<>> THEN (IF cur = <<>> THEN <<>> ELSE <<cur>>)
    ELSE IF Head(ts) = P(",") THEN <<cur>> \o SplitComma(Tail(ts), <<>>)
    ELSE SplitComma(Tail(ts), Append(cur, Head(ts)))

Arms(code) == SplitComma(code[3].g, <<>>)

\* An arm is PATTERN => EXPR.
ArrowAt(a) == CHOOSE i \in 1..Len(a) : a[i] = P("=>")
ArmPattern(a) == SubSeq(a, 1, ArrowAt(a) - 1)
ArmExpr(a) == SubSeq(a, ArrowAt(a) + 1, Len(a))

\* The pattern `Self::V`, `Self::V(..)` or `Self::V { .. }` matches the values
\* of variant V.
PatternMatches(pat, variant) ==
    /\ Len(pat) >= 3
    /\ pat[1] = Id("Self") /\ pat[2] = P("::")
    /\ pat[3] = Id(variant.ident)

\* The names a pattern binds, in order, and the field each is bound to: by
\* position in a parenthesised pattern, by field name in a braced one.
PatternNames(pat) ==
    IF Len(pat) >= 4
    THEN LET parts == SplitComma(pat[4].g, <<>>)
         IN  [i \in 1..Len(parts) |-> parts[i][1].s]
    ELSE <<>>
BoundMember(pat, name) ==
    IF pat[4].s = "Brace" THEN name
    ELSE LET names == PatternNames(pat)
         IN  ToString((CHOOSE i \in 1..Len(names) : names[i] = name) - 1)

\* The value of an arm's expression: `NAME.span()` or the call-site span.
ArmValue(a) ==
    LET e == ArmExpr(a)
        pat == ArmPattern(a)
    IN  IF e = CallSite THEN Ok(CallSiteSpan)
        ELSE IF /\ Len(e) = 4 /\ e[2] = P(".") /\ e[3] = Id("span")
                /\ \E i \in 1..Len(PatternNames(pat)) : PatternNames(pat)[i] = e[1].s
        THEN Ok(FieldSpan(BoundMember(pat, e[1].s)))
        ELSE Err(Error("rustc", "cannot find value " \o e[1].s))

\* ------------------------------------------- syn's lookahead and parsing
\* What `input.peek(T)` and `input.parse::<T>()` do for the modelled types:
\* each type is one token; peek inspects the next token, parse consumes it
\* or fails at the cursor.
Accepts(ty) ==
    CASE ty = "Lit" -> {"int", "str"}
      [] ty = "LitInt" -> {"int"}
      [] OTHER -> {}

Peek(ty, toks, at) == at < Len(toks) /\ toks[at + 1] \in Accepts(ty)

InputSpan(at) == "input@" \o ToString(at)

ParseType(ty, toks, at) ==
    IF at < Len(toks) /\ toks[at + 1] \in Accepts(ty)
    THEN Ok(toks[at + 1])
    ELSE Err(Error(InputSpan(at), "expected " \o ty))

\* ---------------------------------------------- hizli-core/src/ns_attr.rs
\* An implementor of NsAttr: `#[myattr(<integer literal>)]`.
NS == "myattr"
NsArgType == "LitInt"
AttrPaths == {NS, "doc"}

\* syn::Attribute: the path and the tokens of the argument list.
Attribute(path, args) == [path |-> path, args |-> args]
AttrSet == {Attribute(p, <<k>>) : p \in AttrPaths, k \in TokenKinds}
AttrLists == UNION { [1..n -> AttrSet] : n \in 0..MaxAttrs }
AttrSpan(i) == "attrs[" \o ToString(i) \o "]"
ArgsSpan(i, at) == AttrSpan(i) \o ".args@" \o ToString(at)

\* Where a caller anchors the missing-attribute error.
CallerSpans == {"call_site", "ident"}

\* AttrLevel and its derived Debug rendering.
AttrLevels == {"AttrLevel::Type", "AttrLevel::Variant", "AttrLevel::Field"}
AttrLevelDebug(level) ==
    CASE level = "AttrLevel::Type" -> "Type"
      [] level = "AttrLevel::Variant" -> "Variant"
      [] level = "AttrLevel::Field" -> "Field"

\* attr.path().is_ident(Self::NS)
is_ident(attr, ns) == attr.path = ns

\* attr.parse_args(): the implementor's Parse over the argument tokens; the
\* error of a failed parse lies inside the arguments of that attribute.
parse_args(attrs, i) ==
    LET r == ParseType(NsArgType, attrs[i].args, 0)
    IN  IF r.ok THEN r ELSE Err(Error(ArgsSpan(i, 0), r.err.msg))

\* Option<Self>: None is <<>>, Some(v) is <<v>>.
RECURSIVE FromAttrsLoop(_, _, _)
FromAttrsLoop(attrs, i, res_) ==
    IF i > Len(attrs) THEN Ok(res_)
    ELSE IF ~is_ident(attrs[i], NS) THEN FromAttrsLoop(attrs, i + 1, res_)
    ELSE IF res_ # <<>>
    THEN Err(Error(AttrSpan(i), "Attribute #[" \o NS \o "] Is Already Configured"))
    ELSE LET parsed == parse_args(attrs, i)
         IN  IF ~parsed.ok THEN parsed
             ELSE FromAttrsLoop(attrs, i + 1, <<parsed.val>>)

\* The loop with the last matching attribute winning.
RECURSIVE FromAttrsLoopLastWins(_, _, _)
FromAttrsLoopLastWins(attrs, i, res_) ==
    IF i > Len(attrs) THEN Ok(res_)
    ELSE IF ~is_ident(attrs[i], NS) THEN FromAttrsLoopLastWins(attrs, i + 1, res_)
    ELSE LET parsed == parse_args(attrs, i)
         IN  IF ~parsed.ok THEN parsed
             ELSE FromAttrsLoopLastWins(attrs, i + 1, <<parsed.val>>)
from_attrs_opt_last_wins(attrs) == FromAttrsLoopLastWins(attrs, 1, <<>>)

from_attrs_opt(attrs) == FromAttrsLoop(attrs, 1, <<>>)

\* from_attrs reporting every failure as the missing attribute.
from_attrs_masking(attrs, span) ==
    LET found == from_attrs_opt(attrs)
    IN  IF found.ok /\ found.val # <<>> THEN Ok(found.val[1])
        ELSE Err(Error(span, "Attribute #[" \o NS \o "] Is Required"))

from_attrs(attrs, span) ==
    LET found == from_attrs_opt(attrs)
    IN  IF ~found.ok THEN found
        ELSE IF found.val # <<>> THEN Ok(found.val[1])
        ELSE Err(Error(span, "Attribute #[" \o NS \o "] Is Required"))

\* no_attrs rejecting only the attributes whose arguments parse.
no_attrs_parsed(attrs, level) ==
    LET found == {i \in 1..Len(attrs) : is_ident(attrs[i], NS) /\ parse_args(attrs, i).ok}
    IN  IF found = {} THEN Ok(<<>>)
        ELSE LET i == CHOOSE x \in found : \A y \in found : x <= y
             IN  Err(Error(AttrSpan(i),
                           "Attribute #[" \o NS \o "] Is Not Allowed At The "
                             \o AttrLevelDebug(level) \o " Level"))

\* attrs.iter().find(..): the first matching attribute; Ok(()) is Ok(<<>>).
no_attrs(attrs, level) ==
    LET found == {i \in 1..Len(attrs) : is_ident(attrs[i], NS)}
    IN  IF found = {} THEN Ok(<<>>)
        ELSE LET i == CHOOSE x \in found : \A y \in found : x <= y
             IN  Err(Error(AttrSpan(i),
                           "Attribute #[" \o NS \o "] Is Not Allowed At The "
                             \o AttrLevelDebug(level) \o " Level"))

\* ---------------------------------------- reading the emitted statements
HasAt(code, at, ts) ==
    /\ at >= 1
    /\ at + Len(ts) - 1 <= Len(code)
    /\ SubSeq(code, at, at + Len(ts) - 1) = ts

\* `if input.peek(T) { return ::core::result::Result::Ok(EXPR); }`
BranchLen == 6
IsBranchAt(code, at) ==
    /\ HasAt(code, at, <<Id("if"), Id("input"), P("."), Id("peek")>>)
    /\ at + 5 <= Len(code)
    /\ code[at + 4].k = "Group" /\ code[at + 4].s = "Parenthesis"
    /\ code[at + 5].k = "Group" /\ code[at + 5].s = "Brace"
    /\ HasAt(code[at + 5].g, 1, <<Id("return")>> \o ResultPath("Ok"))
    /\ Len(code[at + 5].g) = 11

BranchType(code, at) == TokensToString(code[at + 4].g)
BranchExpr(code, at) == code[at + 5].g[10].g

\* `::core::result::Result::Ok(EXPR)` as the block's value
IsOkTailAt(code, at) ==
    /\ HasAt(code, at, ResultPath("Ok"))
    /\ Len(code) = at + 8
    /\ code[at + 8].k = "Group"

\* `::core::result::Result::Err(::syn::Error::new(input.span(), MSG))`
IsErrTailAt(code, at) ==
    /\ HasAt(code, at, ResultPath("Err"))
    /\ Len(code) = at + 8
    /\ code[at + 8].k = "Group"
    /\ Len(code[at + 8].g) = 7
    /\ Len(code[at + 8].g[7].g) = 6

ErrTailMsg(code, at) == code[at + 8].g[7].g[6].s

\* A constructor expression: `Self` or `Self::V`, then nothing or one group.
PathLen(e) == IF Len(e) >= 3 /\ e[2] = P("::") THEN 3 ELSE 1
CtorName(e) == IF PathLen(e) = 3 THEN e[3].s ELSE "Self"
CtorDelim(e) == IF Len(e) > PathLen(e) THEN e[PathLen(e) + 1].s ELSE ""
CtorInner(e) == IF Len(e) > PathLen(e) THEN e[PathLen(e) + 1].g ELSE <<>>

\* One initialiser at position at of the comma-separated list:
\* `name: input.parse()?` or `input.parse()?`.
IsNamedInitAt(inner, at) ==
    /\ at + 1 <= Len(inner)
    /\ inner[at].k = "Ident" /\ inner[at + 1] = P(":")
    /\ HasAt(inner, at + 2, ParseCall)
InitLen(inner, at) == IF IsNamedInitAt(inner, at) THEN 7 ELSE 5
IsInitAt(inner, at) == IsNamedInitAt(inner, at) \/ HasAt(inner, at, ParseCall)
\* The position of the next initialiser, past the separating comma.
NextInit(inner, at) ==
    LET e == at + InitLen(inner, at)
    IN  IF e <= Len(inner) /\ inner[e] = P(",") THEN e + 1 ELSE e

\* The fields the named constructor is declared with.
DeclFields(data, name) ==
    IF data.kind = "Enum"
    THEN LET is == {i \in 1..Len(data.variants) : data.variants[i].ident = name}
         IN  IF is = {} THEN UnitFields ELSE data.variants[CHOOSE i \in is : TRUE].fields
    ELSE data.fields

\* The type the compiler infers for an initialiser: the declared type of the
\* field it initialises, by name or by position ("!" when there is no such field).
InitType(fields, inner, at, n) ==
    IF IsNamedInitAt(inner, at)
    THEN LET is == {i \in 1..Len(fields.list) : fields.list[i].ident = inner[at].s}
         IN  IF is = {} THEN "!" ELSE fields.list[CHOOSE i \in is : TRUE].ty
    ELSE IF n + 1 <= Len(fields.list) /\ fields.list[n + 1].ident = ""
         THEN fields.list[n + 1].ty ELSE "!"

InitMember(inner, at, n) ==
    IF IsNamedInitAt(inner, at) THEN inner[at].s ELSE ToString(n)

\* ------------------------------------------------------------ the state
VARIABLES
    input,    \* the DeriveInput under derivation
    pc,       \* "input", "done" (an operation returned), "run", "halt"
    op,       \* the operation applied to the input
    arg,      \* the operation's further arguments
    res,      \* what the operation returned
    stream,   \* the tokens the emitted parser reads
    pos,      \* the parser's cursor: tokens consumed so far
    ip,       \* position in the emitted block of the statement to execute
    expr,     \* the constructor expression being evaluated, <<>> when none
    ap,       \* position in that expression's initialiser list
    vals,     \* the field values parsed so far
    rtres,    \* what the emitted code returned
    log,      \* the lookaheads, field parses and match arms performed, in order
    inst      \* the value the emitted accessor is called on: 0 for the struct,
              \* or the position of the instance's variant

rtvars == <<stream, pos, ip, expr, ap, vals, rtres, log, inst>>
vars == <<input, pc, op, arg, res, stream, pos, ip, expr, ap, vals, rtres, log, inst>>

NoArg ==
    [name |-> "", fields |-> UnitFields, layout |-> "", inner |-> <<>>, vi |-> 0,
     span |-> "", level |-> ""]
NoResult == Err(NoError)

DeriveInput(data, generics) ==
    [ident |-> TypeIdent, generics |-> generics, data |-> data, attrs |-> <<>>]

\* The field collections of the input: the struct's, or one per variant.
Collections(data) ==
    IF data.kind = "Enum" THEN {data.variants[i].fields : i \in 1..Len(data.variants)}
    ELSE {data.fields}

\* Fragments handed to wrap.
Fragments ==
    { <<>>, <<Id("x")>>, <<Id("x"), P(","), Id("y")>>, <<Grp("Brace", <<Id("x")>>)>> }

Init ==
    /\ input \in UNION { {DeriveInput(d, gen) : gen \in GenericsFor(d)} : d \in DataSet }
    /\ pc = "input"
    /\ op = ""
    /\ arg = NoArg
    /\ res = NoResult
    /\ stream = <<>>
    /\ pos = 0
    /\ ip = 0
    /\ expr = <<>>
    /\ ap = 0
    /\ vals = <<>>
    /\ rtres = NoResult
    /\ log = <<>>
    /\ inst = 0

Return(o, a, r) ==
    /\ pc' = "done"
    /\ op' = o
    /\ arg' = a
    /\ res' = r
    /\ UNCHANGED <<input, rtvars>>

\* ------------------------------------------------- the library operations
StructEnumOnlyTryNew ==
    /\ pc = "input"
    /\ \E n \in DeriveNames :
          Return("StructEnumOnly::try_new", [NoArg EXCEPT !.name = n],
                 StructEnumOnly_try_new(input.data, n))

StructOnlyTryNew ==
    /\ pc = "input"
    /\ \E n \in DeriveNames :
          Return("StructOnly::try_new", [NoArg EXCEPT !.name = n],
                 StructOnly_try_new(input.data, n))

EnumOnlyTryNew ==
    /\ pc = "input"
    /\ \E n \in DeriveNames :
          Return("EnumOnly::try_new", [NoArg EXCEPT !.name = n],
                 EnumOnly_try_new(input.data, n))

FieldTypeNew ==
    /\ pc = "input"
    /\ \E fs \in Collections(input.data) :
          Return("FieldType::new", [NoArg EXCEPT !.fields = fs], Ok(FieldType_new(fs)))

\* classify, then wrap
FieldTypeWrap ==
    /\ pc = "input"
    /\ \E fs \in Collections(input.data), inner \in Fragments :
          LET layout == FieldType_new(fs)
          IN  Return("FieldType::wrap",
                     [NoArg EXCEPT !.fields = fs, !.layout = layout, !.inner = inner],
                     Ok(FieldType_wrap(layout, inner)))

FromFields ==
    /\ pc = "input"
    /\ \E fs \in Collections(input.data) :
          Return("FieldBinding::from_fields", [NoArg EXCEPT !.fields = fs],
                 Ok(FieldBinding_from_fields(fs)))

VariantPattern ==
    /\ pc = "input"
    /\ \E i \in 1..Len(input.data.variants) :
          Return("variant_pattern", [NoArg EXCEPT !.vi = i],
                 Ok(variant_pattern(VariantBinding_new(input.data.variants[i]))))

ParseDerive ==
    /\ pc = "input"
    /\ Return("derive(Parse)", NoArg, parse_handler(input))

SpanableDerive ==
    /\ pc = "input"
    /\ Return("derive(Spanable)", NoArg, spanable_handler(input))

\* The entry points of hizli-macros: out!(handler, input).
ParseEntry ==
    /\ pc = "input"
    /\ Return("parse", NoArg, Ok(out_macro(parse_handler(input))))

SpanableEntry ==
    /\ pc = "input"
    /\ Return("spanable", NoArg, Ok(out_macro(spanable_handler(input))))

\* ------------------------------------------ running the emitted parser
Code == BlockOf(res.val)

RtStart ==
    /\ pc = "done" /\ op = "derive(Parse)" /\ res.ok
    /\ \E s \in Streams : stream' = s
    /\ pc' = "run"
    /\ ip' = 1
    /\ UNCHANGED <<inst, input, op, arg, res, pos, expr, ap, vals, rtres, log>>

\* if input.peek(T) { return ... }
RtPeek ==
    /\ pc = "run" /\ expr = <<>> /\ IsBranchAt(Code, ip)
    /\ log' = Append(log, [ev |-> "peek", what |-> BranchType(Code, ip)])
    /\ IF Peek(BranchType(Code, ip), stream, pos)
       THEN expr' = BranchExpr(Code, ip) /\ ap' = 1 /\ ip' = ip
       ELSE expr' = expr /\ ap' = ap /\ ip' = ip + BranchLen
    /\ UNCHANGED <<inst, input, pc, op, arg, res, stream, pos, vals, rtres>>

\* ::core::result::Result::Ok(Self ...) as the value of the block
RtTailOk ==
    /\ pc = "run" /\ expr = <<>> /\ IsOkTailAt(Code, ip)
    /\ expr' = Code[ip + 8].g
    /\ ap' = 1
    /\ UNCHANGED <<inst, input, pc, op, arg, res, stream, pos, ip, vals, rtres, log>>

\* ::core::result::Result::Err(::syn::Error::new(input.span(), msg))
RtTailErr ==
    /\ pc = "run" /\ expr = <<>> /\ IsErrTailAt(Code, ip)
    /\ rtres' = Err(Error(InputSpan(pos), ErrTailMsg(Code, ip)))
    /\ pc' = "halt"
    /\ UNCHANGED <<inst, input, op, arg, res, stream, pos, ip, expr, ap, vals, log>>

\* A field parse whose failure falls through to the next branch.
RtParseFieldBacktrack ==
    /\ pc = "run" /\ expr # <<>> /\ IsInitAt(CtorInner(expr), ap)
    /\ LET inner == CtorInner(expr)
           n == Len(vals)
           ty == InitType(DeclFields(input.data, CtorName(expr)), inner, ap, n)
           member == InitMember(inner, ap, n)
           r == ParseType(ty, stream, pos)
       IN  /\ log' = Append(log, [ev |-> "parse", what |-> member])
           /\ IF r.ok
              THEN /\ vals' = Append(vals, [member |-> member, ty |-> ty, tok |-> r.val])
                   /\ pos' = pos + 1
                   /\ ap' = NextInit(inner, ap)
                   /\ UNCHANGED <<pc, rtres, expr, ip>>
              ELSE IF IsBranchAt(Code, ip)
              THEN /\ expr' = <<>> /\ ip' = ip + BranchLen
                   /\ vals' = <<>> /\ pos' = 0 /\ ap' = 0
                   /\ UNCHANGED <<pc, rtres>>
              ELSE /\ rtres' = Err(r.err)
                   /\ pc' = "halt"
                   /\ UNCHANGED <<vals, pos, ap, expr, ip>>
    /\ UNCHANGED <<inst, input, op, arg, res, stream>>

\* name: input.parse()?   or   input.parse()?
RtParseField ==
    /\ pc = "run" /\ expr # <<>> /\ IsInitAt(CtorInner(expr), ap)
    /\ LET inner == CtorInner(expr)
           n == Len(vals)
           ty == InitType(DeclFields(input.data, CtorName(expr)), inner, ap, n)
           member == InitMember(inner, ap, n)
           r == ParseType(ty, stream, pos)
       IN  /\ log' = Append(log, [ev |-> "parse", what |-> member])
           /\ IF r.ok
              THEN /\ vals' = Append(vals, [member |-> member, ty |-> ty, tok |-> r.val])
                   /\ pos' = pos + 1
                   /\ ap' = NextInit(inner, ap)
                   /\ UNCHANGED <<pc, rtres>>
              ELSE /\ rtres' = Err(r.err)
                   /\ pc' = "halt"
                   /\ UNCHANGED <<vals, pos, ap>>
    /\ UNCHANGED <<inst, input, op, arg, res, stream, ip, expr>>

\* every initialiser evaluated: the constructed value is returned
RtReturn ==
    /\ pc = "run" /\ expr # <<>> /\ ap > Len(CtorInner(expr))
    /\ rtres' = Ok([ctor |-> CtorName(expr), delim |-> CtorDelim(expr), fields |-> vals])
    /\ pc' = "halt"
    /\ UNCHANGED <<inst, input, op, arg, res, stream, pos, ip, expr, ap, vals, log>>

\* ---------------------------------------- running the emitted accessor
\* The values of the type: the struct's one shape, or one per variant.
Instances(data) == IF data.kind = "Enum" THEN 1..Len(data.variants) ELSE {0}

SpStart ==
    /\ pc = "done" /\ op = "derive(Spanable)" /\ res.ok
    /\ \E v \in Instances(input.data) : inst' = v
    /\ pc' = "eval"
    /\ ip' = 1
    /\ UNCHANGED <<input, op, arg, res, stream, pos, expr, ap, vals, rtres, log>>

\* ::hizli::Spanable::spanable(self.member)
SpField ==
    /\ pc = "eval" /\ IsSpanableCall(Code)
    /\ rtres' = Ok(FieldSpan(Code[7].g[3].s))
    /\ pc' = "halt"
    /\ UNCHANGED <<input, op, arg, res, stream, pos, ip, expr, ap, vals, log, inst>>

\* ::proc_macro2::Span::call_site() as the value of the block
SpCallSite ==
    /\ pc = "eval" /\ Code = CallSite
    /\ rtres' = Ok(CallSiteSpan)
    /\ pc' = "halt"
    /\ UNCHANGED <<input, op, arg, res, stream, pos, ip, expr, ap, vals, log, inst>>

\* match self { .. }: the arms are tried in order, the first matching one
\* gives the value.
SpArm ==
    /\ pc = "eval" /\ IsMatch(Code) /\ ip <= Len(Arms(Code))
    /\ LET a == Arms(Code)[ip]
       IN  /\ log' = Append(log, [ev |-> "arm", what |-> ArmPattern(a)[3].s])
           /\ IF PatternMatches(ArmPattern(a), input.data.variants[inst])
              THEN rtres' = ArmValue(a) /\ pc' = "halt" /\ ip' = ip
              ELSE rtres' = rtres /\ pc' = pc /\ ip' = ip + 1
    /\ UNCHANGED <<input, op, arg, res, stream, pos, expr, ap, vals, inst>>

Next ==
    \/ StructEnumOnlyTryNew
    \/ StructOnlyTryNew
    \/ EnumOnlyTryNew
    \/ FieldTypeNew
    \/ FieldTypeWrap
    \/ FromFields
    \/ VariantPattern
    \/ ParseDerive
    \/ SpanableDerive
    \/ ParseEntry
    \/ SpanableEntry
    \/ RtStart
    \/ RtPeek
    \/ RtTailOk
    \/ RtTailErr
    \/ RtParseField
    \/ RtReturn
    \/ SpStart
    \/ SpField
    \/ SpCallSite
    \/ SpArm

Spec == Init /\ [][Next]_vars

\* ------------------------------------ the NsAttr helpers on attribute lists
\* The attributes of a derive input, handed to the helpers of an implementor.
InitNs ==
    /\ input \in {[DeriveInput(DataStruct(UnitFields), NoGenerics) EXCEPT !.attrs = a] :
                    a \in AttrLists}
    /\ pc = "input"
    /\ op = ""
    /\ arg = NoArg
    /\ res = NoResult
    /\ stream = <<>>
    /\ pos = 0
    /\ ip = 0
    /\ expr = <<>>
    /\ ap = 0
    /\ vals = <<>>
    /\ rtres = NoResult
    /\ log = <<>>
    /\ inst = 0

FromAttrsOpt ==
    /\ pc = "input"
    /\ Return("from_attrs_opt", NoArg, from_attrs_opt(input.attrs))

FromAttrs ==
    /\ pc = "input"
    /\ \E span \in CallerSpans :
          Return("from_attrs", [NoArg EXCEPT !.span = span], from_attrs(input.attrs, span))

NoAttrs ==
    /\ pc = "input"
    /\ \E level \in AttrLevels :
          Return("no_attrs", [NoArg EXCEPT !.level = level], no_attrs(input.attrs, level))

NextNs ==
    \/ FromAttrsOpt
    \/ FromAttrs
    \/ NoAttrs

SpecNs == InitNs /\ [][NextNs]_vars

TypeOK ==
    /\ pc \in {"input", "done", "run", "eval", "halt"}
    /\ pos \in 0..MaxStream
    /\ stream \in Streams
\* ------------------------------------------------------------ properties
MinOf(S) == CHOOSE x \in S : \A y \in S : x <= y
Variants == input.data.variants
FirstType(v) == v.fields.list[1].ty

\* The enums the Parse derive accepts: a variant, and a field in every variant.
EnumParsable ==
    /\ input.data.kind = "Enum"
    /\ Len(Variants) >= 1
    /\ \A i \in 1..Len(Variants) : Len(Variants[i].fields.list) >= 1

\* The variants whose first field's type matches the head of the stream.
Matching == {i \in 1..Len(Variants) : Peek(FirstType(Variants[i]), stream, 0)}

Peeks == SelectSeq(log, LAMBDA e : e.ev = "peek")

\* The fields of a list that fail to parse when field j reads token j.
Fails(list, toks) ==
    {j \in 1..Len(list) : ~(j <= Len(toks) /\ toks[j] \in Accepts(list[j].ty))}

RECURSIVE JoinTypes(_, _)
JoinTypes(vs, i) ==
    IF i >= Len(vs) THEN FirstType(vs[i])
    ELSE FirstType(vs[i]) \o ", " \o JoinTypes(vs, i + 1)
ExpectedOneOf(vs, id) ==
    "Error Parsing: " \o id \o ", Expected One Of: " \o JoinTypes(vs, 1)

\* C1: for an enum with at least one variant and a field in every variant the
\* derive emits a parser; the parser peeks the variants' first-field types in
\* declaration order and constructs the earliest-declared variant whose
\* lookahead matches, also when several lookaheads match.
C1_EarliestMatchingVariant ==
    (op = "derive(Parse)" /\ EnumParsable) =>
        /\ res.ok
        /\ \A j \in 1..Len(Peeks) :
              j <= Len(Variants) /\ Peeks[j].what = FirstType(Variants[j])
        /\ (pc \in {"run", "halt"} /\ expr # <<>>) =>
              /\ Matching # {}
              /\ CtorName(expr) = Variants[MinOf(Matching)].ident
              /\ Len(Peeks) = MinOf(Matching)
        /\ (pc = "halt" /\ Matching # {}) => expr # <<>>
        /\ (pc = "halt" /\ rtres.ok) =>
              rtres.val.ctor = Variants[MinOf(Matching)].ident

C1_Witness ==
    /\ op = "derive(Parse)" /\ EnumParsable /\ pc = "halt"
    /\ Cardinality(Matching) >= 2
    /\ rtres.ok /\ rtres.val.ctor = Variants[1].ident

\* C2: once a lookahead matched, the parse returns the outcome of that
\* variant's fields: a failing field ends the parse with that field's error,
\* no later variant is peeked, and the error is not the Expected One Of error.
C2_CommittedChoice ==
    (op = "derive(Parse)" /\ EnumParsable /\ pc = "halt" /\ Matching # {}) =>
        LET m == MinOf(Matching)
            list == Variants[m].fields.list
            fails == Fails(list, stream)
        IN  /\ Len(Peeks) = m
            /\ \A j \in 1..Len(log) : j > m => log[j].ev = "parse"
            /\ fails # {} =>
                  /\ ~rtres.ok
                  /\ rtres.err = Error(InputSpan(MinOf(fails) - 1),
                                       "expected " \o list[MinOf(fails)].ty)
                  /\ rtres.err.msg # ExpectedOneOf(Variants, input.ident)
            /\ fails = {} => rtres.ok /\ rtres.val.ctor = Variants[m].ident

C2_Witness ==
    /\ op = "derive(Parse)" /\ EnumParsable /\ pc = "halt"
    /\ Matching # {} /\ ~rtres.ok
    /\ \E i \in Matching :
          i > MinOf(Matching) /\ Fails(Variants[i].fields.list, stream) = {}

\* C3: when no lookahead matches, the parser fails with the single error
\* "Error Parsing: <TypeName>, Expected One Of: " followed by the first-field
\* type of every variant in declaration order, separated by ", ".
C3_ExpectedOneOf ==
    (op = "derive(Parse)" /\ EnumParsable /\ pc = "halt" /\ Matching = {}) =>
        /\ ~rtres.ok
        /\ rtres.err = Error(InputSpan(0), ExpectedOneOf(Variants, input.ident))
        /\ Len(Peeks) = Len(Variants)
        /\ Len(log) = Len(Variants)

C3_Witness ==
    /\ op = "derive(Parse)" /\ EnumParsable /\ pc = "halt" /\ Matching = {}
    /\ Len(Variants) >= 2
    /\ FirstType(Variants[1]) # FirstType(Variants[2])
    /\ ~rtres.ok

\* C4: the Parse derive of an enum without variants fails at generation time
\* with the empty-enum error at the enum keyword; no code is emitted and the
\* emitted parser never runs.
C4_EmptyEnum ==
    (op = "derive(Parse)" /\ input.data.kind = "Enum" /\ Variants = <<>>) =>
        /\ ~res.ok
        /\ res.err = Error(EnumToken,
              "Cannot #[derive(Parse)] On An Empty Enum. It's Not Constructable At Runtime")
        /\ res.val = <<>>
        /\ pc = "done"

C4_Witness ==
    /\ op = "derive(Parse)" /\ input.data.kind = "Enum" /\ Variants = <<>>
    /\ pc = "done" /\ ~res.ok

\* C5: each shape gate accepts exactly its allowed shapes and returns the
\* payload unchanged; any other shape fails with "Cannot #[derive(<Name>)] On
\* <Shape>", Name the caller's derive name and Shape the rejected shape, at that
\* shape's keyword.
GateAllowed(o) ==
    CASE o = "StructEnumOnly::try_new" -> {"Struct", "Enum"}
      [] o = "StructOnly::try_new" -> {"Struct"}
      [] o = "EnumOnly::try_new" -> {"Enum"}
KeywordSpan(kind) ==
    CASE kind = "Struct" -> StructToken
      [] kind = "Enum" -> EnumToken
      [] kind = "Union" -> UnionToken

C5_ShapeGate ==
    (op \in {"StructEnumOnly::try_new", "StructOnly::try_new", "EnumOnly::try_new"}) =>
        IF input.data.kind \in GateAllowed(op)
        THEN /\ res.ok
             /\ res.val.payload = input.data
             /\ res.val.tag = input.data.kind
        ELSE /\ ~res.ok
             /\ res.err = Error(KeywordSpan(input.data.kind),
                   "Cannot #[derive(" \o arg.name \o ")] On " \o input.data.kind)

C5_Witness ==
    /\ op = "EnumOnly::try_new" /\ input.data.kind = "Struct"
    /\ arg.name = "MyClone" /\ ~res.ok
\* C6 as stated: the layout depends only on whether the collection has zero,
\* named or positional fields; every collection of zero fields is Unit.
C6_ZeroFieldsIsUnit ==
    (op = "FieldType::new") =>
        LET list == arg.fields.list
        IN  res.val = IF Len(list) = 0 THEN "Unit"
                      ELSE IF list[1].ident # "" THEN "Named" ELSE "Unnamed"

\* C6 amended: the layout follows the written form of the collection: named
\* fields are Named and positional fields Unnamed, and a collection of zero
\* fields is Unit only when written without delimiters; an empty brace list
\* is Named and an empty parenthesised list Unnamed.
C6_LayoutFollowsForm ==
    (op = "FieldType::new") =>
        LET list == arg.fields.list
        IN  /\ (Len(list) >= 1 /\ \A i \in 1..Len(list) : list[i].ident # "")
                  => res.val = "Named"
            /\ (Len(list) >= 1 /\ \A i \in 1..Len(list) : list[i].ident = "")
                  => res.val = "Unnamed"
            /\ Len(list) = 0 =>
                  res.val = CASE arg.fields.kind = "Unit" -> "Unit"
                              [] arg.fields.kind = "Named" -> "Named"
                              [] arg.fields.kind = "Unnamed" -> "Unnamed"

C6_Witness ==
    /\ op = "FieldType::new"
    /\ arg.fields.kind = "Named" /\ arg.fields.list = <<>>
    /\ res.val = "Named"

\* C7: wrap returns the inner fragment unchanged for Unit, inside one brace
\* group for Named and inside one parenthesis group for Unnamed, the inner
\* tokens kept in order; there is no other outcome.
C7_Wrap ==
    (op = "FieldType::wrap") =>
        LET inner == arg.inner
            out == res.val
        IN  /\ arg.layout \in {"Unit", "Named", "Unnamed"}
            /\ arg.layout = "Unit" => out = inner
            /\ arg.layout = "Named" =>
                  /\ Len(out) = 1
                  /\ out[1].k = "Group" /\ out[1].s = "Brace" /\ out[1].g = inner
            /\ arg.layout = "Unnamed" =>
                  /\ Len(out) = 1
                  /\ out[1].k = "Group" /\ out[1].s = "Parenthesis" /\ out[1].g = inner

C7_Witness ==
    /\ op = "FieldType::wrap" /\ arg.layout = "Named"
    /\ Len(arg.inner) = 3
    /\ res.val[1].g = arg.inner

\* C8: from_fields returns one binding per field in declaration order, named
\* after the field's declared name or "binding_<i>" for the positional field at
\* zero-based position i, and the names of one collection are pairwise distinct.
C8_FromFields ==
    (op = "FieldBinding::from_fields") =>
        LET list == arg.fields.list
            b == res.val
        IN  /\ Len(b) = Len(list)
            /\ \A i \in 1..Len(list) :
                  b[i].ident = IF list[i].ident # "" THEN list[i].ident
                               ELSE "binding_" \o ToString(i - 1)
            /\ \A i, j \in 1..Len(b) : i # j => b[i].ident # b[j].ident

C8_Witness ==
    /\ op = "FieldBinding::from_fields"
    /\ arg.fields.kind = "Unnamed" /\ Len(arg.fields.list) >= 2
    /\ res.val[2].ident = "binding_1"

\* C9: variant_pattern is the variant's name followed by the layout's wrap of
\* the binding names joined by commas in declaration order; the pattern holds
\* as many names as the variant has fields.
BindingName(list, i) ==
    IF list[i].ident # "" THEN list[i].ident ELSE "binding_" \o ToString(i - 1)
IsNameList(g, list) ==
    LET n == Len(list)
    IN  /\ Len(g) = IF n = 0 THEN 0 ELSE 2 * n - 1
        /\ \A i \in 1..n : g[2 * i - 1] = Id(BindingName(list, i))
        /\ \A i \in 1..(n - 1) : g[2 * i] = P(",")
        /\ Cardinality({i \in 1..Len(g) : g[i].k = "Ident"}) = n

C9_VariantPattern ==
    (op = "variant_pattern") =>
        LET v == Variants[arg.vi]
            pat == res.val
        IN  /\ pat[1] = Id(v.ident)
            /\ v.fields.kind = "Unit" => Len(pat) = 1
            /\ v.fields.kind = "Named" =>
                  /\ Len(pat) = 2
                  /\ pat[2].k = "Group" /\ pat[2].s = "Brace"
                  /\ IsNameList(pat[2].g, v.fields.list)
            /\ v.fields.kind = "Unnamed" =>
                  /\ Len(pat) = 2
                  /\ pat[2].k = "Group" /\ pat[2].s = "Parenthesis"
                  /\ IsNameList(pat[2].g, v.fields.list)

C9_Witness ==
    /\ op = "variant_pattern"
    /\ Variants[arg.vi].fields.kind = "Unnamed"
    /\ Len(Variants[arg.vi].fields.list) = 2
    /\ Len(res.val) = 2 /\ Len(res.val[2].g) = 3

\* C10: the parser emitted for a struct parses one value per field in
\* declaration order, under the field's name when it has one, and returns the
\* struct built with the layout's delimiters; the first failing field ends the
\* parse with its error and no later field is parsed.
StructMember(list, j) ==
    IF list[j].ident # "" THEN list[j].ident ELSE ToString(j - 1)
LayoutDelim(kind) ==
    CASE kind = "Unit" -> ""
      [] kind = "Named" -> "Brace"
      [] kind = "Unnamed" -> "Parenthesis"

C10_StructParser ==
    (op = "derive(Parse)" /\ input.data.kind = "Struct") =>
        LET list == input.data.fields.list
            fails == Fails(list, stream)
        IN  /\ res.ok
            /\ \A j \in 1..Len(log) :
                  /\ j <= Len(list)
                  /\ log[j] = [ev |-> "parse", what |-> StructMember(list, j)]
            /\ (pc = "halt" /\ fails = {}) =>
                  /\ rtres.ok
                  /\ rtres.val =
                        [ctor |-> "Self",
                         delim |-> LayoutDelim(input.data.fields.kind),
                         fields |-> [j \in 1..Len(list) |->
                                        [member |-> StructMember(list, j),
                                         ty |-> list[j].ty, tok |-> stream[j]]]]
                  /\ Len(log) = Len(list)
            /\ (pc = "halt" /\ fails # {}) =>
                  /\ ~rtres.ok
                  /\ rtres.err = Error(InputSpan(MinOf(fails) - 1),
                                       "expected " \o list[MinOf(fails)].ty)
                  /\ Len(log) = MinOf(fails)
                  /\ pos = MinOf(fails) - 1

C10_Witness ==
    /\ op = "derive(Parse)" /\ input.data.kind = "Struct" /\ pc = "halt"
    /\ input.data.fields.kind = "Named"
    /\ Fails(input.data.fields.list, stream) # {}
    /\ MinOf(Fails(input.data.fields.list, stream)) < Len(input.data.fields.list)
    /\ ~rtres.ok
ExpectedNameList(list) ==
    IF list = <<>> THEN <<>>
    ELSE [k \in 1..(2 * Len(list) - 1) |->
            IF k % 2 = 1 THEN Id(BindingName(list, (k + 1) \div 2)) ELSE P(",")]
ExpectedPattern(v) ==
    <<Id("Self"), P("::"), Id(v.ident)>>
      \o CASE v.fields.kind = "Unit" -> <<>>
           [] v.fields.kind = "Named" ->
                <<Grp("Brace", ExpectedNameList(v.fields.list))>>
           [] v.fields.kind = "Unnamed" ->
                <<Grp("Parenthesis", ExpectedNameList(v.fields.list))>>
ExpectedArmExpr(v) ==
    IF v.fields.list = <<>> THEN CallSite
    ELSE <<Id(BindingName(v.fields.list, 1)), P("."), Id("span"),
           Grp("Parenthesis", <<>>)>>

C12_EnumAccessor ==
    (op = "derive(Spanable)" /\ input.data.kind = "Enum") =>
        /\ res.ok
        /\ Variants = <<>> =>
              /\ Code = <<Id("match"), P("*"), Id("self"), Grp("Brace", <<>>)>>
              /\ pc = "done"
        /\ Variants # <<>> =>
              /\ IsMatch(Code)
              /\ Len(Arms(Code)) = Len(Variants)
              /\ \A i \in 1..Len(Variants) :
                    /\ ArmPattern(Arms(Code)[i]) = ExpectedPattern(Variants[i])
                    /\ ArmExpr(Arms(Code)[i]) = ExpectedArmExpr(Variants[i])
              /\ pc \in {"eval", "halt"} =>
                    {i \in 1..Len(Variants) :
                        PatternMatches(ArmPattern(Arms(Code)[i]), Variants[inst])} = {inst}
              /\ pc = "halt" =>
                    /\ ip = inst
                    /\ Len(log) = inst
                    /\ rtres.ok
                    /\ rtres.val =
                          IF Variants[inst].fields.list = <<>> THEN CallSiteSpan
                          ELSE FieldSpan(StructMember(Variants[inst].fields.list, 1))

C12_Witness ==
    /\ op = "derive(Spanable)" /\ input.data.kind = "Enum" /\ pc = "halt"
    /\ Len(Variants) >= 2 /\ inst = 2
    /\ Len(Variants[2].fields.list) >= 2
    /\ Variants[1].fields.list = <<>>
    /\ rtres.ok /\ rtres.val # CallSiteSpan
\* C15: on success each derive handler emits an implementation of its
\* derivation's trait for the input type, with the type's generics and
\* where-clause: `impl<..> ::syn::parse::Parse for T<..> where ..` for Parse,
\* `impl<..> ::hizli::Spanable for T<..> where ..` for Spanable.
ExpectedAngle(params) ==
    IF params = <<>> THEN <<>>
    ELSE <<P("<")>>
           \o [k \in 1..(2 * Len(params) - 1) |->
                 IF k % 2 = 1 THEN Id(params[(k + 1) \div 2]) ELSE P(",")]
           \o <<P(">")>>
ImplOfTrait(code, trait) ==
    /\ code # <<>>
    /\ SubSeq(code, 1, Len(code) - 1) =
          <<P("#"), Grp("Bracket", <<Id("automatically_derived")>>), Id("impl")>>
            \o ExpectedAngle(input.generics.params)
            \o trait \o <<Id("for"), Id(input.ident)>>
            \o ExpectedAngle(input.generics.params)
            \o input.generics.where_clause
    /\ code[Len(code)].k = "Group" /\ code[Len(code)].s = "Brace"

C15_TraitImpl ==
    /\ (op = "derive(Parse)" /\ res.ok) =>
          ImplOfTrait(res.val,
                      <<P("::"), Id("syn"), P("::"), Id("parse"), P("::"), Id("Parse")>>)
    /\ (op = "derive(Spanable)" /\ res.ok) =>
          ImplOfTrait(res.val, <<P("::"), Id("hizli"), P("::"), Id("Spanable")>>)

\* C16: the Parse derive of a non-empty enum with a fieldless variant fails at
\* generation time with "#[derive(Parse)] Requires At Least One Field" at the
\* name of the first fieldless variant in declaration order, whatever the other
\* variants are; no code is emitted and no parser runs.
Fieldless == {i \in 1..Len(Variants) : Variants[i].fields.list = <<>>}

C16_FieldlessVariant ==
    (op = "derive(Parse)" /\ input.data.kind = "Enum" /\ Fieldless # {}) =>
        /\ ~res.ok
        /\ res.err = Error(VariantIdentSpan(MinOf(Fieldless)),
                           "#[derive(Parse)] Requires At Least One Field")
        /\ res.val = <<>>
        /\ pc = "done"

C16_Witness ==
    /\ op = "derive(Parse)" /\ input.data.kind = "Enum"
    /\ Len(Variants) >= 2 /\ Fieldless = {2}
    /\ Variants[2].fields.kind = "Unnamed"
    /\ ~res.ok /\ res.err.span = VariantIdentSpan(2)

\* C18: an invocation of either derive ends in exactly one of two outcomes: the
\* complete implementation, or the compile-error rendering of one diagnostic
\* and no code. The diagnostic is that of the first violation: the shape gate,
\* then (Parse) the empty enum, then (Parse) the first fieldless variant.
FirstViolation(name) ==
    IF input.data.kind = "Union"
    THEN Error(UnionToken, "Cannot #[derive(" \o name \o ")] On Union")
    ELSE IF name = "Parse" /\ input.data.kind = "Enum" /\ Variants = <<>>
    THEN Error(EnumToken,
               "Cannot #[derive(Parse)] On An Empty Enum. It's Not Constructable At Runtime")
    ELSE IF name = "Parse" /\ input.data.kind = "Enum" /\ Fieldless # {}
    THEN Error(VariantIdentSpan(MinOf(Fieldless)),
               "#[derive(Parse)] Requires At Least One Field")
    ELSE NoError
IsCompleteImpl(code) ==
    /\ Len(code) >= 5
    /\ code[1] = P("#") /\ code[3] = Id("impl")
    /\ \A i \in 1..Len(code) : code[i] # Id("compile_error")
    /\ LET body == code[Len(code)]
       IN  /\ body.k = "Group" /\ body.s = "Brace"
           /\ body.g # <<>> /\ body.g[1] = Id("fn")
           /\ body.g[Len(body.g)].k = "Group" /\ body.g[Len(body.g)].s = "Brace"

C18_OneOutcome ==
    (op \in {"parse", "spanable"}) =>
        LET name == IF op = "parse" THEN "Parse" ELSE "Spanable"
            handled == IF op = "parse" THEN parse_handler(input)
                       ELSE spanable_handler(input)
            v == FirstViolation(name)
        IN  /\ res.ok
            /\ v = NoError =>
                  /\ IsCompleteImpl(res.val)
                  /\ handled.ok /\ res.val = handled.val
            /\ v # NoError =>
                  /\ res.val = <<P("::"), Id("core"), P("::"), Id("compile_error"),
                                 P("!"), Grp("Brace", <<Lit(v.msg)>>)>>
                  /\ ~handled.ok /\ handled.err = v /\ handled.val = <<>>

C18_Witness ==
    /\ op = "parse" /\ input.data.kind = "Enum"
    /\ Len(Variants) >= 2 /\ Fieldless = {1, 2}
    /\ res.val = <<P("::"), Id("core"), P("::"), Id("compile_error"), P("!"),
                   Grp("Brace", <<Lit("#[derive(Parse)] Requires At Least One Field")>>)>>
\* The annotations of the list that match the namespace, and whether the
\* arguments of one are what the implementor's parser accepts.
Matches == {i \in 1..Len(input.attrs) : input.attrs[i].path = "myattr"}
ArgsParse(i) == input.attrs[i].args = <<"int">>
SecondMatch == MinOf(Matches \ {MinOf(Matches)})
AlreadyConfigured(i) ==
    Error(AttrSpan(i), "Attribute #[myattr] Is Already Configured")

\* C13 as stated: from_attrs_opt succeeds with absent when no annotation
\* matches, with present when exactly one matches, and fails with "Attribute
\* #[<ns>] Is Already Configured" at the second match when two or more match.
C13_ByCount ==
    (op = "from_attrs_opt") =>
        /\ Matches = {} => (res.ok /\ res.val = <<>>)
        /\ Cardinality(Matches) = 1 => (res.ok /\ res.val # <<>>)
        /\ Cardinality(Matches) >= 2 =>
              (~res.ok /\ res.err = AlreadyConfigured(SecondMatch))

\* C13: from_attrs_opt succeeds with absent when no annotation matches;
\* otherwise it parses the arguments of the first match and fails with that
\* parse error when they do not parse; when they parse it succeeds with the
\* parsed value if that is the only match and fails with "Attribute #[<ns>] Is
\* Already Configured" at the second match if there are two or more.
C13_FindOptional ==
    (op = "from_attrs_opt") =>
        /\ Matches = {} => (res.ok /\ res.val = <<>>)
        /\ Matches # {} =>
              LET first == MinOf(Matches)
              IN  /\ ~ArgsParse(first) =>
                        /\ ~res.ok
                        /\ res.err = Error(ArgsSpan(first, 0), "expected LitInt")
                  /\ (ArgsParse(first) /\ Cardinality(Matches) = 1) =>
                        (res.ok /\ res.val = <<input.attrs[first].args[1]>>)
                  /\ (ArgsParse(first) /\ Cardinality(Matches) >= 2) =>
                        (~res.ok /\ res.err = AlreadyConfigured(SecondMatch))

C13_Witness ==
    /\ op = "from_attrs_opt" /\ Len(input.attrs) = 3
    /\ Matches = {2, 3} /\ ArgsParse(2) /\ ~ArgsParse(3)
    /\ ~res.ok /\ res.err = AlreadyConfigured(3)

\* C14: from_attrs returns the value or the error of from_attrs_opt on the
\* same list, except that absent becomes the error "Attribute #[<ns>] Is
\* Required" at the position the caller supplied.
C14_FindRequired ==
    (op = "from_attrs") =>
        LET found == from_attrs_opt(input.attrs)
        IN  /\ (found.ok /\ found.val = <<>>) =>
                  /\ Matches = {}
                  /\ ~res.ok
                  /\ res.err = Error(arg.span, "Attribute #[myattr] Is Required")
            /\ (found.ok /\ found.val # <<>>) =>
                  (res.ok /\ res.val = found.val[1])
            /\ ~found.ok => (~res.ok /\ res.err = found.err)
            /\ Matches = {} => (~res.ok /\ res.err.span = arg.span)

C14_Witness ==
    /\ op = "from_attrs" /\ input.attrs # <<>> /\ Matches = {}
    /\ arg.span = "ident"
    /\ ~res.ok /\ res.err = Error("ident", "Attribute #[myattr] Is Required")

\* C17: no_attrs fails exactly when some annotation matches the namespace,
\* whether or not its arguments parse, with "Attribute #[<ns>] Is Not Allowed
\* At The <Level> Level", Level the caller's level (Type, Variant or Field), at
\* the first match; annotations of other namespaces never make it fail.
LevelName ==
    CASE arg.level = "AttrLevel::Type" -> "Type"
      [] arg.level = "AttrLevel::Variant" -> "Variant"
      [] arg.level = "AttrLevel::Field" -> "Field"

C17_Forbid ==
    (op = "no_attrs") =>
        /\ res.ok <=> Matches = {}
        /\ Matches # {} =>
              res.err = Error(AttrSpan(MinOf(Matches)),
                              "Attribute #[myattr] Is Not Allowed At The "
                                \o LevelName \o " Level")
        /\ Matches = {} => res.val = <<>>

C17_Witness ==
    /\ op = "no_attrs" /\ arg.level = "AttrLevel::Variant"
    /\ Len(input.attrs) = 3 /\ Matches = {2, 3} /\ ~ArgsParse(2)
    /\ ~res.ok
    /\ res.err = Error("attrs[2]", "Attribute #[myattr] Is Not Allowed At The Variant Level")
====
